---- MODULE Spec2Model ----
(***************************************************************************)
(* Model of .github/scripts/python/agent_runner.py: the entry point main() *)
(* and run_agent(query).  The Agent object, the BedrockModel client and    *)
(* the tools are library collaborators: the model records that they are    *)
(* constructed and called, and treats what a call does (how many model     *)
(* calls it issues, whether it returns or raises) as a choice of the       *)
(* environment.                                                            *)
(***************************************************************************)
EXTENDS Integers, Sequences, FiniteSets, TLC

\* Longest task text drawn for INPUT_TASK_PROMPT.
MaxTaskLen == 2
\* Most model calls one invocation of the agent issues.
MaxModelCalls == 2

\* ------------------------------------------------------------------ values

Chars == {"a", " "}

\* Python str values: sequences of characters, the empty string is << >>.
Strings == UNION {[1..n -> Chars] : n \in 0..MaxTaskLen}

\* An environment variable is either unset or set to a string.
EnvUnset == [set |-> FALSE, value |-> << >>]

EnvValues == {EnvUnset} \cup {[set |-> TRUE, value |-> s] : s \in Strings}

\* os.getenv(name, default)
Getenv(var, default) == IF var.set THEN var.value ELSE default

\* s[:n]
Slice(s, n) == SubSeq(s, 1, IF Len(s) < n THEN Len(s) ELSE n)

\* The emptiness test left out: every str counts as a task.
TruthyAlways(s) == TRUE

\* truth value of a str: `not s` is the negation of this
Truthy(s) == Len(s) > 0

STRANDS_MODEL_ID == <<"anthropic.claude-opus-4-20250514-v1:0">>

STRANDS_MAX_TOKENS == 64000

STRANDS_BUDGET_TOKENS == 8000

STRANDS_REGION == <<"ap-northeast-1">>

DEFAULT_SYSTEM_PROMPT == <<"You are an autonomous GitHub agent.">>

TaskSliceLen == 200

QuerySliceLen == 100

\* _get_all_tools(): the fixed list of seventeen tools, in order.
AllTools ==
    << "str_replace_based_edit_tool", "shell", "http_request", "create_issue",
       "get_issue", "update_issue", "list_issues", "add_issue_comment",
       "get_issue_comments", "create_pull_request", "get_pull_request",
       "update_pull_request", "list_pull_requests",
       "get_pr_review_and_comments", "reply_to_review_comment", "notebook",
       "handoff_to_user" >>

\* The arguments run_agent gives to BedrockModel(...).
ModelConfig ==
    [ model_id |-> STRANDS_MODEL_ID,
      max_tokens |-> STRANDS_MAX_TOKENS,
      region_name |-> STRANDS_REGION,
      read_timeout |-> 900,
      connect_timeout |-> 900,
      retries |-> [max_attempts |-> 3, mode |-> "adaptive"],
      anthropic_beta |-> <<"interleaved-thinking-2025-05-14">>,
      thinking |-> [type |-> "enabled", budget_tokens |-> STRANDS_BUDGET_TOKENS] ]

\* What a call made by run_agent may raise.  The first two are subclasses of
\* Exception; KeyboardInterrupt derives from BaseException only.
ExceptionSubclasses == {"RuntimeError", "ClientError"}

Raisable == ExceptionSubclasses \cup {"KeyboardInterrupt"}

NoExc == "None"

\* What agent(query) may return.
Results == {"result1", "result2"}

NoResult == "None"

\* ------------------------------------------------------------------ output

Line(kind, arg) == [kind |-> kind, arg |-> arg]

NoTaskLine == Line("no_task", << >>)

SeparatorLine == Line("separator", << >>)

CompletedLine == Line("completed", << >>)

ErrorLine(e) == Line("error", <<e>>)

RunningLine(q) == Line("running", Slice(q, QuerySliceLen))

\* The seven lines main prints before it calls run_agent.
Banner(task) ==
    << SeparatorLine,
       Line("starting", << >>),
       SeparatorLine,
       Line("model", STRANDS_MODEL_ID),
       Line("region", STRANDS_REGION),
       Line("task", Slice(task, TaskSliceLen)),
       SeparatorLine >>

\* ------------------------------------------------------------------- state

VARIABLES
    env,             \* the process environment: INPUT_TASK_PROMPT, INPUT_SYSTEM_PROMPT
    pc,              \* position of the single thread of control
    task_prompt,     \* main's local
    query,           \* run_agent's parameter
    tools,           \* run_agent's local: << >> until _get_all_tools has returned
    model,           \* run_agent's local: << >> until built, then <<config>>
    system_prompt,   \* run_agent's local
    agent,           \* run_agent's local: << >> until built, then <<agent>>
    result,          \* run_agent's local
    returned,        \* the value run_agent handed back to main
    exc,             \* the exception in flight (bound to e in the handler)
    thrown,          \* the exception a call of the try block raised
    stdout,          \* the lines printed so far
    run_agent_calls, \* invocations of run_agent
    agent_calls,     \* invocations of agent(query)
    model_calls,     \* model calls issued inside agent(query)
    exit             \* how the process left main

vars == << env, pc, task_prompt, query, tools, model, system_prompt, agent,
           result, returned, exc, thrown, stdout, run_agent_calls, agent_calls,
           model_calls, exit >>

locals == << task_prompt, query, tools, model, system_prompt, agent, result >>

counters == << run_agent_calls, agent_calls, model_calls >>

Running == [kind |-> "running", value |-> NoResult, exc |-> NoExc]

Init ==
    /\ env \in [task_prompt : EnvValues, system_prompt : EnvValues]
    /\ pc = "main"
    /\ task_prompt = << >>
    /\ query = << >>
    /\ tools = << >>
    /\ model = << >>
    /\ system_prompt = << >>
    /\ agent = << >>
    /\ result = NoResult
    /\ returned = NoResult
    /\ exc = NoExc
    /\ thrown = NoExc
    /\ stdout = << >>
    /\ run_agent_calls = 0
    /\ agent_calls = 0
    /\ model_calls = 0
    /\ exit = Running

\* ------------------------------------------------------------------- main

\* main, lines 109-112: the task text is empty or unset.
MainNoTask ==
    /\ pc = "main"
    /\ ~Truthy(Getenv(env.task_prompt, << >>))
    /\ task_prompt' = Getenv(env.task_prompt, << >>)
    /\ stdout' = Append(stdout, NoTaskLine)
    /\ exit' = [kind |-> "returned", value |-> NoResult, exc |-> NoExc]
    /\ pc' = "exit"
    /\ UNCHANGED << returned, env, query, tools, model, system_prompt, agent, result,
                    exc, thrown, counters >>

\* main, lines 109-122: the task text is non-empty; print the banner and
\* call run_agent(task_prompt).
MainStart ==
    /\ pc = "main"
    /\ Truthy(Getenv(env.task_prompt, << >>))
    /\ task_prompt' = Getenv(env.task_prompt, << >>)
    /\ stdout' = stdout \o Banner(task_prompt')
    /\ query' = task_prompt'
    /\ run_agent_calls' = run_agent_calls + 1
    /\ pc' = "get_tools"
    /\ UNCHANGED << returned, env, tools, model, system_prompt, agent, result, exc,
                    thrown, agent_calls, model_calls, exit >>

\* main, line 122: run_agent returned; main discards the value and returns.
MainReturn ==
    /\ pc = "main_return"
    /\ exit' = [kind |-> "returned", value |-> NoResult, exc |-> NoExc]
    /\ pc' = "exit"
    /\ UNCHANGED << returned, env, locals, exc, thrown, stdout, counters >>

\* main, line 122: run_agent raised; main has no handler.
MainPropagate ==
    /\ pc = "main_unwind"
    /\ exit' = [kind |-> "raised", value |-> NoResult, exc |-> exc]
    /\ pc' = "exit"
    /\ UNCHANGED << returned, env, locals, exc, thrown, stdout, counters >>

\* -------------------------------------------------------------- run_agent

\* A call inside the try block raises e: control goes to the except clause.
RaiseInTry(e) ==
    /\ exc' = e
    /\ thrown' = e
    /\ pc' = "unwind"

\* line 68: tools = _get_all_tools()
GetAllTools ==
    /\ pc = "get_tools"
    /\ \/ /\ tools' = AllTools
          /\ pc' = "build_model"
          /\ UNCHANGED << exc, thrown >>
       \/ /\ \E e \in Raisable : RaiseInTry(e)
          /\ UNCHANGED tools
    /\ UNCHANGED << returned, env, task_prompt, query, model, system_prompt, agent,
                    result, stdout, counters, exit >>

\* lines 70-88: model = BedrockModel(...)
BuildModel ==
    /\ pc = "build_model"
    /\ \/ /\ model' = << ModelConfig >>
          /\ pc' = "get_system_prompt"
          /\ UNCHANGED << exc, thrown >>
       \/ /\ \E e \in Raisable : RaiseInTry(e)
          /\ UNCHANGED model
    /\ UNCHANGED << returned, env, task_prompt, query, tools, system_prompt, agent,
                    result, stdout, counters, exit >>

\* line 90: system_prompt = os.getenv("INPUT_SYSTEM_PROMPT", DEFAULT_SYSTEM_PROMPT)
GetSystemPrompt ==
    /\ pc = "get_system_prompt"
    /\ system_prompt' = Getenv(env.system_prompt, DEFAULT_SYSTEM_PROMPT)
    /\ pc' = "build_agent"
    /\ UNCHANGED << returned, env, task_prompt, query, tools, model, agent, result,
                    exc, thrown, stdout, counters, exit >>

\* lines 92-96: agent = Agent(model, system_prompt, tools)
BuildAgent ==
    /\ pc = "build_agent"
    /\ \/ /\ agent' = << [model |-> model[1], system_prompt |-> system_prompt,
                          tools |-> tools] >>
          /\ pc' = "print_running"
          /\ UNCHANGED << exc, thrown >>
       \/ /\ \E e \in Raisable : RaiseInTry(e)
          /\ UNCHANGED agent
    /\ UNCHANGED << returned, env, task_prompt, query, tools, model, system_prompt,
                    result, stdout, counters, exit >>

\* line 98: print the running line with query[:100]
PrintRunning ==
    /\ pc = "print_running"
    /\ stdout' = Append(stdout, RunningLine(query))
    /\ pc' = "invoke_agent"
    /\ UNCHANGED << returned, env, locals, exc, thrown, counters, exit >>

\* line 99: agent(query) is entered.
AgentInvoke ==
    /\ pc = "invoke_agent"
    /\ agent_calls' = agent_calls + 1
    /\ pc' = "agent_running"
    /\ UNCHANGED << returned, env, locals, exc, thrown, stdout, run_agent_calls,
                    model_calls, exit >>

\* line 99: inside agent(query) the library issues a model call.
AgentModelCall ==
    /\ pc = "agent_running"
    /\ model_calls < MaxModelCalls
    /\ model_calls' = model_calls + 1
    /\ UNCHANGED << returned, env, pc, locals, exc, thrown, stdout, run_agent_calls,
                    agent_calls, exit >>

\* line 99: agent(query) returns; result = its value.
AgentReturn ==
    /\ pc = "agent_running"
    /\ \E r \in Results : result' = r
    /\ pc' = "print_completed"
    /\ UNCHANGED << returned, env, task_prompt, query, tools, model, system_prompt,
                    agent, exc, thrown, stdout, counters, exit >>

\* line 99: agent(query) raises.
AgentRaise ==
    /\ pc = "agent_running"
    /\ \E e \in Raisable : RaiseInTry(e)
    /\ UNCHANGED << returned, env, locals, stdout, counters, exit >>

\* lines 100-101: print the completion marker and return result.
Complete ==
    /\ pc = "print_completed"
    /\ stdout' = Append(stdout, CompletedLine)
    /\ returned' = result
    /\ pc' = "main_return"
    /\ UNCHANGED << env, locals, exc, thrown, counters, exit >>

\* line 103: `except Exception` matches instances of Exception and of its
\* subclasses only.
Catches(e) == e \in ExceptionSubclasses

\* The handler with its `raise` left out: run_agent returns None.
HandlerSwallows ==
    /\ pc = "unwind"
    /\ Catches(exc)
    /\ stdout' = Append(stdout, ErrorLine(exc))
    /\ exc' = NoExc
    /\ pc' = "main_return"
    /\ UNCHANGED << returned, env, locals, thrown, counters, exit >>

\* lines 103-105: print the error marker and re-raise e.
ExceptHandler ==
    /\ pc = "unwind"
    /\ Catches(exc)
    /\ stdout' = Append(stdout, ErrorLine(exc))
    /\ pc' = "main_unwind"
    /\ UNCHANGED << returned, env, locals, exc, thrown, counters, exit >>

\* line 103: the exception is no instance of Exception; no clause matches
\* and it leaves run_agent as it is.
Uncaught ==
    /\ pc = "unwind"
    /\ ~Catches(exc)
    /\ pc' = "main_unwind"
    /\ UNCHANGED << returned, env, locals, exc, thrown, stdout, counters, exit >>

Next ==
    \/ MainNoTask
    \/ MainStart
    \/ MainReturn
    \/ MainPropagate
    \/ GetAllTools
    \/ BuildModel
    \/ GetSystemPrompt
    \/ BuildAgent
    \/ PrintRunning
    \/ AgentInvoke
    \/ AgentModelCall
    \/ AgentReturn
    \/ AgentRaise
    \/ Complete
    \/ ExceptHandler
    \/ Uncaught

Spec == Init /\ [][Next]_vars

\* ------------------------------------------------------------------ claims

\* The task text main reads, INPUT_TASK_PROMPT with "" for an unset variable.
TaskText == IF env.task_prompt.set THEN env.task_prompt.value ELSE << >>

TaskEmpty == Len(TaskText) = 0

Ended == pc = "exit"

Printed(line) == \E i \in 1..Len(stdout) : stdout[i] = line

TimesPrinted(line) == Cardinality({i \in 1..Len(stdout) : stdout[i] = line})

ErrorMarkers == {i \in 1..Len(stdout) : stdout[i].kind = "error"}

\* C7: when the task text is empty or unset, no tool list, model client or
\* agent is ever constructed, run_agent and the agent are never invoked and
\* no model call is made; main prints the no-task diagnostic alone and
\* returns normally.  run_agent is invoked at most once in a run, only for
\* a non-empty task text, and exactly once as soon as main has passed its
\* emptiness test with a non-empty task text.
C7_EmptyTaskNoRun ==
    /\ TaskEmpty =>
          /\ run_agent_calls = 0
          /\ agent_calls = 0
          /\ model_calls = 0
          /\ tools = << >>
          /\ model = << >>
          /\ agent = << >>
          /\ pc \in {"main", "exit"}
          /\ Ended => /\ stdout = << NoTaskLine >>
                      /\ exit.kind = "returned"
                      /\ exit.exc = NoExc
    /\ run_agent_calls <= 1
    /\ run_agent_calls = 1 => ~TaskEmpty
    /\ (~TaskEmpty /\ pc # "main") => run_agent_calls = 1

\* C7 witness: main has ended on an unset task variable having printed the
\* no-task diagnostic.
C7_Witness ==
    /\ Ended
    /\ ~env.task_prompt.set
    /\ stdout = << NoTaskLine >>
    /\ exit.kind = "returned"

\* The session ended with run_agent returning the agent's result after
\* printing the completion marker.
SessionSuccess ==
    /\ exit.kind = "returned"
    /\ thrown = NoExc
    /\ returned \in Results
    /\ returned = result
    /\ TimesPrinted(CompletedLine) = 1
    /\ stdout[Len(stdout)] = CompletedLine
    /\ ErrorMarkers = {}

\* The session ended with the error marker printed for the error raised and
\* that same error leaving the process.
SessionFailure ==
    /\ exit.kind = "raised"
    /\ thrown # NoExc
    /\ exit.exc = thrown
    /\ returned = NoResult
    /\ ErrorMarkers = {Len(stdout)}
    /\ stdout[Len(stdout)] = ErrorLine(thrown)
    /\ ~Printed(CompletedLine)

====
